---- MODULE Spec2Model ----
(***************************************************************************)
(* State-machine model of simple_vector.h: RawMemory<T> (a block of raw    *)
(* slots) and SimpleVector<T> (the block plus the count size_).            *)
(*                                                                         *)
(* A slot of a block is either Raw (no live object of type T in it) or the *)
(* value of the live object it holds.  The element type T modelled is      *)
(* copy constructible and not nothrow-move-constructible, so every         *)
(* `if constexpr` of the header selects std::uninitialized_copy_n, and a   *)
(* constructor of T (value, copy, or from arguments) may throw.  The       *)
(* assignment operators of T do not throw.                                 *)
(*                                                                         *)
(* Reading a slot that holds no live object is undefined behaviour: the    *)
(* value read is any value of T (Reads).  Assigning to such a slot        *)
(* (T::operator=) does not start a lifetime: the slot stays Raw.           *)
(***************************************************************************)
EXTENDS Integers, Sequences

VARIABLES
    data_,    \* SimpleVector::data_ : [buffer_, capacity_]
    size_,    \* SimpleVector::size_
    pc,       \* "live": the object exists; "dead": destroyed / not yet built
    faults,   \* lifetime faults committed by the last operation
    last,     \* the last operation: its name, argument and outcome
    hist,     \* values pushed since a default construction, while only PushBack ran
    ie        \* contents before an Insert that is followed at once by Erase

vars == <<data_, size_, pc, faults, last, hist, ie>>

\* Largest block operator new hands out; a larger request throws bad_alloc.
MaxCap == 4

\* The values of T; T() is DefaultValue.
Values == {0, 1}
DefaultValue == 0

\* A slot with no live object in it.
Raw == 0 - 1

\* Failure points of a call that makes at most n constructor calls of T:
\* 0 none, 1 the allocation, k+1 the k-th constructor call.
Fails(n) == 0..(n + 1)

(***************************************************************************)
(* RawMemory                                                               *)
(***************************************************************************)
\* RawMemory(size_t capacity): Allocate(capacity) slots of raw memory.
RawMemory(capacity) ==
    [buffer_ |-> [i \in 0..(capacity - 1) |-> Raw], capacity_ |-> capacity]

\* Allocate(n): operator new throws when it cannot satisfy the request; n = 0
\* allocates nothing.
AllocateThrows(n, f) == n # 0 /\ (f = 1 \/ n > MaxCap)

\* Deallocate(buf) runs no destructor: a live object in the block is lost.
DeallocateFaults(buf) ==
    IF \E i \in DOMAIN buf : buf[i] # Raw THEN {"leak"} ELSE {}

(***************************************************************************)
(* <memory> algorithms on a block                                          *)
(***************************************************************************)
Range(first, n) == first..(first + n - 1)

\* std::destroy_n(first, n) / std::destroy_at
DestroyN(buf, first, n) ==
    [i \in DOMAIN buf |-> IF i \in Range(first, n) THEN Raw ELSE buf[i]]

\* Destroying a slot that holds no live object.
DestroyFaults(buf, first, n) ==
    IF \E i \in Range(first, n) \cap DOMAIN buf : buf[i] = Raw
    THEN {"double_destroy"} ELSE {}

\* Constructing over a live object: that object is never destroyed.
ConstructFaults(buf, first, n) ==
    IF \E i \in Range(first, n) \cap DOMAIN buf : buf[i] # Raw
    THEN {"leak"} ELSE {}

\* placement new of one T with value v at slot i
Construct(buf, i, v) == [j \in DOMAIN buf |-> IF j = i THEN v ELSE buf[j]]

\* std::uninitialized_copy_n / uninitialized_value_construct_n of n objects
\* with values vals[0..n-1] into slots first.. ; the k-th construction
\* throws when k \in 1..n, and the algorithm then destroys the k-1 objects
\* it has built.
UninitializedN(buf, first, n, vals, k) ==
    IF k \in 1..n
    THEN [b |-> DestroyN(buf, first, k - 1), ok |-> FALSE,
          faults |-> ConstructFaults(buf, first, k - 1)]
    ELSE [b |-> [i \in DOMAIN buf |->
                    IF i \in Range(first, n) THEN vals[i - first] ELSE buf[i]],
          ok |-> TRUE,
          faults |-> ConstructFaults(buf, first, n)]

\* What reading elements [0, s) of a block yields: the value of a live
\* object, any value for a slot that holds none.
Reads(buf, s) ==
    {r \in [0..(s - 1) -> Values] :
        \A i \in 0..(s - 1) : (i \in DOMAIN buf /\ buf[i] # Raw) => r[i] = buf[i]}

(***************************************************************************)
(* Outcome of an operation on (data_, size_)                               *)
(***************************************************************************)
\* ex: "none" on a normal return, else the exception that left the call.
Outcome(d, s, ok, fl) ==
    [data |-> d, size |-> s, ok |-> ok, faults |-> fl,
     ex |-> IF ok THEN "none" ELSE "T"]

\* A constructor of T threw.
Threw(d, s, fl) == Outcome(d, s, FALSE, fl)

\* operator new threw: nothing was built.
BadAlloc(d, s) == [Outcome(d, s, FALSE, {}) EXCEPT !.ex = "bad_alloc"]

\* ~SimpleVector() then ~RawMemory(): destroy_n(data_, size_), Deallocate.
DtorFaults(d, s) ==
    DestroyFaults(d.buffer_, 0, s) \cup DeallocateFaults(DestroyN(d.buffer_, 0, s))

\* Growth by one slot instead of doubling.
GrowthCapacity_linear(s) == s + 1

\* Capacity of the block a full array reallocates into.
GrowthCapacity(s) == IF s = 0 THEN 1 ELSE s * 2


(***************************************************************************)
(* SimpleVector: constructors                                              *)
(***************************************************************************)
\* explicit SimpleVector(size_t size): data_(size), then value-construct.
SizedCtor(n, f) ==
    IF AllocateThrows(n, f) THEN BadAlloc(RawMemory(0), 0)
    ELSE LET c == UninitializedN(RawMemory(n).buffer_, 0, n,
                                 [i \in 0..(n - 1) |-> DefaultValue], f - 1)
         IN  IF ~c.ok
             THEN Threw(RawMemory(0), 0, c.faults \cup DeallocateFaults(c.b))
             ELSE Outcome([buffer_ |-> c.b, capacity_ |-> n], n, TRUE, c.faults)

\* SimpleVector(const SimpleVector& other): data_(other.size_), then copy.
CopyCtor(other, f) ==
    LET n == other.size_ IN
    IF AllocateThrows(n, f) THEN BadAlloc(RawMemory(0), 0)
    ELSE LET c == UninitializedN(RawMemory(n).buffer_, 0, n, other.buffer_, f - 1)
         IN  IF ~c.ok
             THEN Threw(RawMemory(0), 0, c.faults \cup DeallocateFaults(c.b))
             ELSE Outcome([buffer_ |-> c.b, capacity_ |-> n], n, TRUE, c.faults)

\* Swap(other): data_.Swap(other.data_), std::swap(size_, other.size_).  This
\* array takes other's block and size; other takes (d, s) and is destroyed
\* when its own lifetime ends, right after the call.
Swap(d, s, other) ==
    Outcome([buffer_ |-> other.buffer_, capacity_ |-> other.capacity_],
            other.size_, TRUE, DtorFaults(d, s))

(***************************************************************************)
(* SimpleVector: capacity                                                  *)
(***************************************************************************)
\* Reserve that never reallocates.
Reserve_noop(d, s, new_capacity, f, r) == Outcome(d, s, TRUE, {})

\* void Reserve(size_t new_capacity)
Reserve(d, s, new_capacity, f, r) ==
    IF new_capacity <= d.capacity_ THEN Outcome(d, s, TRUE, {})
    ELSE IF AllocateThrows(new_capacity, f) THEN BadAlloc(d, s)
    ELSE LET c == UninitializedN(RawMemory(new_capacity).buffer_, 0, s, r, f - 1)
             old == DestroyN(d.buffer_, 0, s)
         IN  IF ~c.ok
             THEN Threw(d, s, c.faults \cup DeallocateFaults(c.b))
             ELSE Outcome([buffer_ |-> c.b, capacity_ |-> new_capacity], s, TRUE,
                          c.faults \cup DestroyFaults(d.buffer_, 0, s)
                                   \cup DeallocateFaults(old))

\* void Resize(size_t new_size)
Resize(d, s, new_size, f, r) ==
    IF s > new_size
    THEN Outcome([d EXCEPT !.buffer_ = DestroyN(d.buffer_, 0, s - new_size)],
                 new_size, TRUE, DestroyFaults(d.buffer_, 0, s - new_size))
    ELSE IF s < new_size
    THEN LET res == Reserve(d, s, new_size, f, r)
             \* constructor calls Reserve has made
             used == IF new_size <= d.capacity_ THEN 0 ELSE s
             c == UninitializedN(res.data.buffer_, 0, new_size - s,
                                 [i \in 0..(new_size - s - 1) |-> DefaultValue],
                                 f - 1 - used)
         IN  IF ~res.ok THEN res
             ELSE Outcome([res.data EXCEPT !.buffer_ = c.b],
                          IF c.ok THEN new_size ELSE s, c.ok,
                          res.faults \cup c.faults)
    ELSE Outcome(d, s, TRUE, {})

(***************************************************************************)
(* SimpleVector: append                                                    *)
(***************************************************************************)
\* Appending always at slot 0.
AppendSlot_front(s) == 0

\* The slot the appended element is constructed in: data_ + size_.
AppendSlot(s) == s

\* void PushBack(const T& value) / void PushBack(T&& value)
PushBack(d, s, value, f, r) ==
    IF s # d.capacity_
    THEN IF f = 2 THEN Threw(d, s, {})
         ELSE Outcome([d EXCEPT !.buffer_ = Construct(d.buffer_, AppendSlot(s), value)],
                      s + 1, TRUE, ConstructFaults(d.buffer_, AppendSlot(s), 1))
    ELSE LET n == GrowthCapacity(s) IN
         IF AllocateThrows(n, f) THEN BadAlloc(d, s)
         ELSE IF f = 2 THEN Threw(d, s, {})
         ELSE LET nb == Construct(RawMemory(n).buffer_, AppendSlot(s), value)
                  c == UninitializedN(nb, 0, s, r, f - 2)
                  old == DestroyN(d.buffer_, 0, s)
              IN  IF ~c.ok
                  THEN Threw(d, s, c.faults \cup DeallocateFaults(c.b))
                  ELSE Outcome([buffer_ |-> c.b, capacity_ |-> n], s + 1, TRUE,
                               c.faults \cup DestroyFaults(d.buffer_, 0, s)
                                        \cup DeallocateFaults(old))

\* T& EmplaceBack(Args&&... args)
EmplaceBack(d, s, value, f, r) ==
    IF s # d.capacity_
    THEN IF f = 2 THEN Threw(d, s, {})
         ELSE Outcome([d EXCEPT !.buffer_ = Construct(d.buffer_, s, value)],
                      s + 1, TRUE, ConstructFaults(d.buffer_, s, 1))
    ELSE LET n == GrowthCapacity(s) IN
         IF AllocateThrows(n, f) THEN BadAlloc(d, s)
         ELSE IF f = 2 THEN Threw(d, s, {})
         ELSE LET nb == Construct(RawMemory(n).buffer_, s, value)
                  c == UninitializedN(nb, 0, s, r, f - 2)
                  old == DestroyN(d.buffer_, 0, s)
              IN  IF ~c.ok
                  THEN Threw(d, s, c.faults \cup DeallocateFaults(c.b))
                  ELSE Outcome([buffer_ |-> c.b, capacity_ |-> n], s + 1, TRUE,
                               c.faults \cup DestroyFaults(d.buffer_, 0, s)
                                        \cup DeallocateFaults(old))

\* void PopBack(): std::destroy_at(data_.GetAddress()); --size_
PopBack(d, s) ==
    Outcome([d EXCEPT !.buffer_ = DestroyN(d.buffer_, 0, 1)], s - 1, TRUE,
            DestroyFaults(d.buffer_, 0, 1))


(***************************************************************************)
(* SimpleVector: positional insert and erase                               *)
(***************************************************************************)
\* iterator Emplace(const_iterator pos, Args&&... args), and Insert, which
\* forwards to it.  dist_to_pos is pos - cbegin().
Emplace(d, s, dist_to_pos, value, f, r) ==
    IF s < d.capacity_
    THEN IF dist_to_pos < s
         THEN \* T t(args...); new(end()) T(data_[size_ - 1]); move_backward;
              \* data_[dist_to_pos] = t
              IF f = 2 \/ f = 3 THEN Threw(d, s, {})
              ELSE Outcome(
                     [d EXCEPT !.buffer_ =
                        [i \in DOMAIN d.buffer_ |->
                           IF i = s THEN r[s - 1]
                           ELSE IF i \in (dist_to_pos + 1)..(s - 1) /\ d.buffer_[i] # Raw
                                THEN r[i - 1]
                           ELSE IF i = dist_to_pos /\ d.buffer_[i] # Raw THEN value
                           ELSE d.buffer_[i]]],
                     s + 1, TRUE, ConstructFaults(d.buffer_, s, 1))
         ELSE IF f = 2 THEN Threw(d, s, {})
              ELSE Outcome([d EXCEPT !.buffer_ = Construct(d.buffer_, dist_to_pos, value)],
                           s + 1, TRUE, ConstructFaults(d.buffer_, dist_to_pos, 1))
    ELSE LET n == GrowthCapacity(s) IN
         IF AllocateThrows(n, f) THEN BadAlloc(d, s)
         ELSE IF f = 2
         THEN \* catch: new_data.~RawMemory(); throw;  and the unwinding runs
              \* ~RawMemory() on new_data a second time
              Threw(d, s, {"double_free"})
         ELSE LET nb == Construct(RawMemory(n).buffer_, dist_to_pos, value)
                  pre == UninitializedN(nb, 0, dist_to_pos, r, f - 2)
                  \* catch: std::destroy_n(new_data + dist_to_pos, 1)
                  preCaught == DestroyN(pre.b, dist_to_pos, 1)
                  suf == UninitializedN(pre.b, dist_to_pos + 1, s - dist_to_pos,
                                        [k \in 0..(s - dist_to_pos - 1) |-> r[dist_to_pos + k]],
                                        f - 2 - dist_to_pos)
                  \* catch: std::destroy_n(new_data.GetAddress(), dist_to_pos)
                  sufCaught == DestroyN(suf.b, 0, dist_to_pos)
                  old == DestroyN(d.buffer_, 0, s)
              IN  IF ~pre.ok
                  THEN Threw(d, s, pre.faults \cup DeallocateFaults(preCaught))
                  ELSE IF ~suf.ok
                  THEN Threw(d, s, suf.faults \cup DestroyFaults(suf.b, 0, dist_to_pos)
                                              \cup DeallocateFaults(sufCaught))
                  ELSE Outcome([buffer_ |-> suf.b, capacity_ |-> n], s + 1, TRUE,
                               suf.faults \cup DestroyFaults(d.buffer_, 0, s)
                                          \cup DeallocateFaults(old))

\* Erase that destroys the last element without shifting the tail.
Erase_noshift(d, s, dist_to_pos, r) ==
    Outcome([d EXCEPT !.buffer_ = DestroyN(d.buffer_, s - 1, 1)], s - 1, TRUE,
            DestroyFaults(d.buffer_, s - 1, 1))

\* iterator Erase(const_iterator pos): std::move(pos + 1, end(), pos);
\* destroy_n(end() - 1, 1); --size_
Erase(d, s, dist_to_pos, r) ==
    LET moved == [i \in DOMAIN d.buffer_ |->
                    IF i \in dist_to_pos..(s - 2) /\ d.buffer_[i] # Raw
                    THEN r[i + 1] ELSE d.buffer_[i]]
    IN  Outcome([d EXCEPT !.buffer_ = DestroyN(moved, s - 1, 1)], s - 1, TRUE,
                DestroyFaults(moved, s - 1, 1))

(***************************************************************************)
(* SimpleVector: assignment                                                *)
(***************************************************************************)
\* Copy-assignment that always reuses the storage.
TooSmall_never(rhsSize, capacity) == FALSE

\* rhs.size_ > data_.Capacity(): the copy-and-swap branch is taken.
TooSmall(rhsSize, capacity) == rhsSize > capacity

\* SimpleVector& operator=(const SimpleVector& rhs), this != &rhs
CopyAssign(d, s, rhs, f) ==
    IF TooSmall(rhs.size_, d.capacity_)
    THEN \* SimpleVector<T> rhs_copy = rhs; Swap(rhs_copy);  ~rhs_copy
         LET c == CopyCtor(rhs, f)
         IN  IF ~c.ok THEN [c EXCEPT !.data = d, !.size = s]
             ELSE Outcome(c.data, c.size, TRUE, c.faults \cup DtorFaults(d, s))
    ELSE IF s > rhs.size_
    THEN LET b1 == DestroyN(d.buffer_, 0, s - rhs.size_)
         IN  Outcome([d EXCEPT !.buffer_ =
                        [i \in DOMAIN b1 |->
                           IF i < rhs.size_ /\ b1[i] # Raw THEN rhs.buffer_[i] ELSE b1[i]]],
                     rhs.size_, TRUE, DestroyFaults(d.buffer_, 0, s - rhs.size_))
    ELSE LET b1 == [i \in DOMAIN d.buffer_ |->
                      IF i < s /\ d.buffer_[i] # Raw THEN rhs.buffer_[i] ELSE d.buffer_[i]]
             c == UninitializedN(b1, 0, rhs.size_ - s, rhs.buffer_, f - 1)
         IN  Outcome([d EXCEPT !.buffer_ = c.b],
                     IF c.ok THEN rhs.size_ ELSE s, c.ok, c.faults)


(***************************************************************************)
(* Inputs                                                                  *)
(***************************************************************************)
\* Another array: capacity c, elements a, a+1, ... (mod 2) in [0, n).
Filled(c, n, a) ==
    [buffer_ |-> [i \in 0..(c - 1) |-> IF i < n THEN (a + i) % 2 ELSE Raw],
     capacity_ |-> c, size_ |-> n]

Others ==
    {o \in {Filled(c, n, a) : c \in 0..MaxCap, n \in 0..MaxCap, a \in Values} :
        o.size_ <= o.capacity_}

\* Sources of a copy: only their elements matter.
Sources == {o \in Others : o.capacity_ = o.size_}

NoOther == Filled(0, 0, 0)

(***************************************************************************)
(* History                                                                 *)
(***************************************************************************)
Label(op, ex, n, rhs) ==
    [op |-> op, ok |-> (ex = "none"), ex |-> ex, n |-> n, rhs |-> rhs]

NoHist == [only |-> FALSE, vals |-> << >>]
NoIE == [stage |-> "none", pos |-> 0, orig |-> << >>, size |-> 0, cap |-> 0]

\* Elements [0, s) of a block, as a sequence.
Contents(buf, s) == [i \in 1..s |-> buf[i - 1]]

\* Every element of [0, s) is a live object and no slot past them is.
WellFormed(d, s) ==
    /\ s <= d.capacity_
    /\ \A i \in DOMAIN d.buffer_ : (d.buffer_[i] # Raw) <=> (i < s)

Apply(o, label, h, g) ==
    /\ data_' = o.data
    /\ size_' = o.size
    /\ faults' = o.faults
    /\ last' = label
    /\ hist' = h
    /\ ie' = g

(***************************************************************************)
(* Initial state: SimpleVector() noexcept = default                        *)
(***************************************************************************)
Init ==
    /\ data_ = RawMemory(0)
    /\ size_ = 0
    /\ pc = "live"
    /\ faults = {}
    /\ last = Label("SimpleVector", "none", 0, NoOther)
    /\ hist = [only |-> TRUE, vals |-> << >>]
    /\ ie = NoIE

(***************************************************************************)
(* Actions: construction and destruction                                   *)
(***************************************************************************)
DefaultCtorStep ==
    /\ pc = "dead"
    /\ pc' = "live"
    /\ Apply(Outcome(RawMemory(0), 0, TRUE, {}), Label("SimpleVector", "none", 0, NoOther),
             [only |-> TRUE, vals |-> << >>], NoIE)

SizedCtorStep ==
    /\ pc = "dead"
    /\ \E n \in 0..MaxCap : \E f \in Fails(n) :
         \E o \in {SizedCtor(n, f)} :
         /\ f = 0 \/ ~o.ok
         /\ pc' = IF o.ok THEN "live" ELSE "dead"
         /\ Apply(o, Label("SizedCtor", o.ex, IF o.ok THEN n ELSE 0, NoOther), NoHist, NoIE)

CopyCtorStep ==
    /\ pc = "dead"
    /\ \E other \in Sources : \E f \in Fails(other.size_) :
         \E o \in {CopyCtor(other, f)} :
         /\ f = 0 \/ ~o.ok
         /\ pc' = IF o.ok THEN "live" ELSE "dead"
         /\ Apply(o, Label("CopyCtor", o.ex, IF o.ok THEN other.size_ ELSE 0, NoOther),
                  NoHist, NoIE)

\* SimpleVector(SimpleVector&& other) noexcept { Swap(other); }
MoveCtorStep ==
    /\ pc = "dead"
    /\ \E other \in Others :
         /\ pc' = "live"
         /\ Apply(Swap(RawMemory(0), 0, other), Label("MoveCtor", "none", 0, NoOther),
                  NoHist, NoIE)

\* ~SimpleVector()
DtorStep ==
    /\ pc = "live"
    /\ pc' = "dead"
    /\ Apply(Outcome(RawMemory(0), 0, TRUE, DtorFaults(data_, size_)),
             Label("~SimpleVector", "none", 0, NoOther), NoHist, NoIE)

(***************************************************************************)
(* Actions: assignment and swap                                            *)
(***************************************************************************)
CopyAssignStep ==
    /\ pc = "live"
    /\ \E rhs \in Sources : \E f \in Fails(rhs.size_) :
         \E o \in {CopyAssign(data_, size_, rhs, f)} :
         /\ f = 0 \/ ~o.ok
         /\ Apply(o, Label("CopyAssign", o.ex, rhs.size_, IF o.ok THEN rhs ELSE NoOther),
                  NoHist, NoIE)
    /\ UNCHANGED pc

\* operator=(SimpleVector&& rhs) noexcept, this != &rhs
MoveAssignStep ==
    /\ pc = "live"
    /\ \E rhs \in Sources :
         Apply(Swap(data_, size_, rhs), Label("MoveAssign", "none", 0, NoOther),
               NoHist, NoIE)
    /\ UNCHANGED pc

SwapStep ==
    /\ pc = "live"
    /\ \E other \in Others :
         Apply(Swap(data_, size_, other), Label("Swap", "none", 0, NoOther),
               NoHist, NoIE)
    /\ UNCHANGED pc

\* v = v and v = std::move(v): this == &rhs, nothing is done.
SelfAssignStep ==
    /\ pc = "live"
    /\ Apply(Outcome(data_, size_, TRUE, {}), Label("SelfAssign", "none", 0, NoOther),
             NoHist, NoIE)
    /\ UNCHANGED pc


(***************************************************************************)
(* Actions: capacity                                                       *)
(***************************************************************************)
ReserveStep ==
    /\ pc = "live"
    /\ \E n \in 0..(MaxCap + 1), f \in Fails(MaxCap), r \in Reads(data_.buffer_, size_) :
         \E o \in {Reserve(data_, size_, n, f, r)} :
         /\ f = 0 \/ ~o.ok
         /\ Apply(o, Label("Reserve", o.ex, 0, NoOther), NoHist, NoIE)
    /\ UNCHANGED pc

ResizeStep ==
    /\ pc = "live"
    /\ \E n \in 0..(MaxCap + 1), f \in Fails(MaxCap), r \in Reads(data_.buffer_, size_) :
         \E o \in {Resize(data_, size_, n, f, r)} :
         /\ f = 0 \/ ~o.ok
         /\ Apply(o, Label("Resize", o.ex, IF o.ok THEN n ELSE 0, NoOther), NoHist, NoIE)
    /\ UNCHANGED pc

(***************************************************************************)
(* Actions: append and remove at the end                                   *)
(***************************************************************************)
PushBackStep ==
    /\ pc = "live"
    /\ \E value \in Values, f \in Fails(size_ + 1), r \in Reads(data_.buffer_, size_) :
         \E o \in {PushBack(data_, size_, value, f, r)} :
         /\ f = 0 \/ ~o.ok
         /\ Apply(o, Label("PushBack", o.ex, 0, NoOther),
                  IF hist.only /\ o.ok
                  THEN [hist EXCEPT !.vals = Append(hist.vals, value)]
                  ELSE hist,
                  NoIE)
    /\ UNCHANGED pc

EmplaceBackStep ==
    /\ pc = "live"
    /\ \E value \in Values, f \in Fails(size_ + 1), r \in Reads(data_.buffer_, size_) :
         \E o \in {EmplaceBack(data_, size_, value, f, r)} :
         /\ f = 0 \/ ~o.ok
         /\ Apply(o, Label("EmplaceBack", o.ex, 0, NoOther), NoHist, NoIE)
    /\ UNCHANGED pc

\* Precondition: size_ > 0.
PopBackStep ==
    /\ pc = "live"
    /\ size_ > 0
    /\ Apply(PopBack(data_, size_), Label("PopBack", "none", 0, NoOther), NoHist, NoIE)
    /\ UNCHANGED pc

(***************************************************************************)
(* Actions: positional insert and erase                                    *)
(***************************************************************************)
\* Insert(pos, value) and Emplace(pos, args...); pos in [begin(), end()].
EmplaceStep ==
    /\ pc = "live"
    /\ \E pos \in 0..size_, value \in Values, f \in Fails(size_ + 1),
          r \in Reads(data_.buffer_, size_) :
         \E o \in {Emplace(data_, size_, pos, value, f, r)} :
         /\ f = 0 \/ ~o.ok
         /\ Apply(o, Label("Emplace", o.ex, 0, NoOther), NoHist,
                  IF o.ok /\ WellFormed(data_, size_)
                  THEN [stage |-> "inserted", pos |-> pos,
                        orig |-> Contents(data_.buffer_, size_), size |-> size_,
                        cap |-> data_.capacity_]
                  ELSE NoIE)
    /\ UNCHANGED pc

\* Erase(pos); pos in [begin(), end()).
EraseStep ==
    /\ pc = "live"
    /\ \E pos \in 0..(size_ - 1), r \in Reads(data_.buffer_, size_) :
         Apply(Erase(data_, size_, pos, r), Label("Erase", "none", 0, NoOther), NoHist,
               IF ie.stage = "inserted" /\ ie.pos = pos
               THEN [ie EXCEPT !.stage = "erased"]
               ELSE NoIE)
    /\ UNCHANGED pc

Next ==
    \/ DefaultCtorStep
    \/ SizedCtorStep
    \/ CopyCtorStep
    \/ MoveCtorStep
    \/ DtorStep
    \/ CopyAssignStep
    \/ MoveAssignStep
    \/ SwapStep
    \/ SelfAssignStep
    \/ ReserveStep
    \/ ResizeStep
    \/ PushBackStep
    \/ EmplaceBackStep
    \/ PopBackStep
    \/ EmplaceStep
    \/ EraseStep

Spec == Init /\ [][Next]_vars


(***************************************************************************)
(* Properties                                                              *)
(***************************************************************************)
Max(a, b) == IF a >= b THEN a ELSE b
Min(a, b) == IF a <= b THEN a ELSE b

\* C1: in every reachable state of a live array exactly the slots [0, size)
\* hold live elements and every slot of [size, capacity) is uninitialized.
C1_LiveExactlyBelowSize ==
    pc = "live" =>
        \A i \in 0..(data_.capacity_ - 1) : (data_.buffer_[i] # Raw) <=> (i < size_)

\* C2: size <= capacity in every reachable state, also after an operation
\* that left with an exception.
C2_SizeLeCapacity == size_ <= data_.capacity_

\* C2 witness: a reallocating insert into a full, non-empty array has thrown.
C2_Witness ==
    /\ last.op = "Emplace" /\ last.ex = "T"
    /\ size_ = data_.capacity_ /\ size_ >= 2

\* C3: no operation, throwing or not, loses a live element, destroys a slot
\* that holds none, or releases a block twice.
C3_NoLifetimeFault == faults = {}

\* C4: after n successful PushBack calls on an empty array the size is n, the
\* capacity is at least n and the elements are the pushed values in call order.
C4_PushBackSequence ==
    hist.only =>
        /\ size_ = Len(hist.vals)
        /\ data_.capacity_ >= Len(hist.vals)
        /\ Contents(data_.buffer_, size_) = hist.vals

\* C4 witness: four pushes of differing values, across three reallocations.
C4_Witness ==
    /\ hist.only /\ Len(hist.vals) = 4
    /\ hist.vals[1] # hist.vals[2] /\ hist.vals[3] # hist.vals[4]

\* C5: Resize(n) on an array of size s ends with size n, keeps the elements
\* [0, min(s, n)), destroys exactly [n, s) when shrinking and
\* default-constructs exactly [s, n) when growing.
C5_ResizeKeepsPrefix ==
    [][(last'.op = "Resize" /\ last'.ok /\ WellFormed(data_, size_)) =>
          /\ size_' = last'.n
          /\ \A i \in 0..(Min(size_, last'.n) - 1) : data_'.buffer_[i] = data_.buffer_[i]
          /\ \A i \in size_..(last'.n - 1) : data_'.buffer_[i] = DefaultValue
          /\ \A i \in last'.n..(data_'.capacity_ - 1) : data_'.buffer_[i] = Raw]_vars

\* C6: PopBack on a non-empty array destroys the element at size-1 and no
\* other, decrements size, and leaves the capacity as it was.
C6_PopBackDestroysLast ==
    [][(last'.op = "PopBack" /\ WellFormed(data_, size_)) =>
          /\ size_' = size_ - 1
          /\ data_'.capacity_ = data_.capacity_
          /\ data_'.buffer_ = DestroyN(data_.buffer_, size_ - 1, 1)]_vars

\* C7: lhs = rhs with rhs.size <= lhs.capacity and no exception: lhs has
\* rhs's size and elements, exactly the slots [rhs.size, capacity) hold no
\* element, and the capacity is unchanged.
C7_CopyAssignReuse ==
    [][(/\ last'.op = "CopyAssign" /\ last'.ok
        /\ WellFormed(data_, size_)
        /\ last'.n <= data_.capacity_) =>
          /\ size_' = last'.n
          /\ data_'.capacity_ = data_.capacity_
          /\ \A i \in 0..(last'.n - 1) : data_'.buffer_[i] = last'.rhs.buffer_[i]
          /\ \A i \in last'.n..(data_.capacity_ - 1) : data_'.buffer_[i] = Raw]_vars

\* C8: lhs = rhs with lhs.capacity < rhs.size that leaves with an exception
\* (the allocation, or the copy of any element of rhs) leaves lhs with the
\* size, capacity and elements it had.
C8_CopyAssignStrong ==
    [][(last'.op = "CopyAssign" /\ ~last'.ok /\ last'.n > data_.capacity_) =>
          (data_' = data_ /\ size_' = size_)]_vars

\* C8 witness: copying an element of a longer rhs threw, over a non-empty lhs.
C8_Witness ==
    /\ last.op = "CopyAssign" /\ last.ex = "T"
    /\ last.n > data_.capacity_ /\ size_ >= 1

\* C9: on an array whose elements [0, size) are all live, Insert(p, v)
\* followed at once by Erase(p) restores the size and the element sequence
\* the array had, whether the insert used spare capacity or reallocated.
C9_InsertEraseRestores ==
    ie.stage = "erased" =>
        /\ size_ = ie.size
        /\ Contents(data_.buffer_, size_) = ie.orig

\* C9 witness: the insert reallocated, in the middle of the array.
C9_Witness ==
    /\ ie.stage = "erased"
    /\ ie.pos >= 1 /\ ie.pos < ie.size
    /\ data_.capacity_ > ie.cap

\* C10: a successful PushBack, EmplaceBack or Insert/Emplace on a full array
\* leaves capacity max(1, 2 * old capacity), and with spare capacity leaves
\* it unchanged; pushes on an empty array give capacities 1, 2, 4.
C10_Doubling ==
    [][(last'.op \in {"PushBack", "EmplaceBack", "Emplace"} /\ last'.ok) =>
          /\ data_'.capacity_ = IF size_ = data_.capacity_
                                THEN Max(1, 2 * data_.capacity_)
                                ELSE data_.capacity_
          /\ (hist'.only /\ Len(hist'.vals) \in 1..3) =>
                data_'.capacity_ = <<1, 2, 4>>[Len(hist'.vals)]]_vars

\* C10 witness: the third PushBack on an empty array has reallocated to 4.
C10_Witness ==
    /\ last.op = "PushBack" /\ last.ok
    /\ hist.only /\ Len(hist.vals) = 3
    /\ data_.capacity_ = 4

====
